---- MODULE Spec2Model ----
(***************************************************************************)
(* A model of the planar geometry kernel of rust-geo: the                  *)
(* Ramer-Douglas-Peucker simplification (geo/src/algorithm/simplify.rs)    *)
(* and the pairwise Intersects predicates                                  *)
(* (geo/src/algorithm/intersects.rs).                                      *)
(*                                                                         *)
(* Coordinates are integers on a bounded grid.  Every quotient the code    *)
(* forms is compared through exact cross-multiplication, a distance is     *)
(* carried as the exact rational value of its square.  The scalar type T   *)
(* is instantiated as f32 where the machine epsilon is needed.             *)
(***************************************************************************)
EXTENDS Integers, Sequences, FiniteSets, TLC

VARIABLES
    points,      \* rdp / simplify: the input point sequence
    epsilon,     \* rdp / simplify: the tolerance of the last call
    callee,      \* rdp / simplify: which entry point was called
    simplified,  \* rdp / simplify: the returned point sequence
    clamped,     \* EuclideanDistance collaborator: distance to the segment
                 \* (TRUE) or to the infinite line (FALSE)
    lhs,         \* intersects: the first geometry
    rhs,         \* intersects: the second geometry
    forward,     \* intersects: <<lhs.intersects(rhs)>> once called, <<>> before
    backward,    \* intersects: <<rhs.intersects(lhs)>> once called, <<>> before
    stack        \* rdp: the frames of the calls in progress, innermost last

vars == <<points, epsilon, callee, simplified, clamped, lhs, rhs, forward, backward, stack>>

\* The value of a variable that holds no call result or operand yet.
None == "none"

-----------------------------------------------------------------------------
(* Bounds of the simplification model *)

RdpMaxX == 1
RdpMaxY == 1
RdpMaxLen == 4
RdpMaxEps == 2

-----------------------------------------------------------------------------
(* Scalars *)

Abs(a) == IF a < 0 THEN -a ELSE a

Sq(a) == a * a

\* An exact rational num / den with den > 0.
Rat(n, d) == [num |-> n, den |-> d]

Zero == Rat(0, 1)

\* a > b on rationals with positive denominators.
RatGt(a, b) == a.num * b.den > b.num * a.den

\* a >= b on rationals with positive denominators.
RatGe(a, b) == a.num * b.den >= b.num * a.den

-----------------------------------------------------------------------------
(* Primitives *)

Point(x, y) == [x |-> x, y |-> y]

Line(start, end) == [start |-> start, end |-> end]

dx(line) == line.end.x - line.start.x

dy(line) == line.end.y - line.start.y

cross_prod(a, b, c) ==
    (b.x - a.x) * (c.y - a.y) - (b.y - a.y) * (c.x - a.x)

dot(a, b) == a.x * b.x + a.y * b.y

\* The segments of a LineString: one per adjacent pair of points.
lines(ls) == [i \in 1..(IF Len(ls) = 0 THEN 0 ELSE Len(ls) - 1) |-> Line(ls[i], ls[i + 1])]

-----------------------------------------------------------------------------
(* EuclideanDistance collaborator (point to line), as the square of the    *)
(* distance.  Whether the distance is clamped to the segment is left open  *)
(* by the kernel, so both readings are modelled and `clamped` chooses.     *)

point_distance_sq(p, q) == Rat(Sq(p.x - q.x) + Sq(p.y - q.y), 1)

euclidean_distance(p, line) ==
    LET len2 == Sq(dx(line)) + Sq(dy(line))
        r    == (p.x - line.start.x) * dx(line) + (p.y - line.start.y) * dy(line)
        perp == Rat(Sq(cross_prod(line.start, line.end, p)), len2)
    IN  IF len2 = 0 THEN point_distance_sq(p, line.start)
        ELSE IF clamped /\ r <= 0 THEN point_distance_sq(p, line.start)
        ELSE IF clamped /\ r >= len2 THEN point_distance_sq(p, line.end)
        ELSE perp

\* distance > epsilon, for a squared distance and a tolerance eps (a rational
\* of either sign): a distance is never negative.
exceeds(distanceSq, eps) ==
    IF eps.num < 0 THEN TRUE
    ELSE distanceSq.num * Sq(eps.den) > Sq(eps.num) * distanceSq.den

-----------------------------------------------------------------------------
(* Ramer-Douglas-Peucker *)

\* The scan loop with `distance >= dmax`: the last of the farthest points.
RECURSIVE rdp_scan_last_max(_, _, _, _)
rdp_scan_last_max(pts, i, index, dmax) ==
    IF i > Len(pts) - 2 THEN [index |-> index, dmax |-> dmax]
    ELSE LET distance == euclidean_distance(pts[i + 1], Line(pts[1], pts[Len(pts)]))
         IN  IF RatGe(distance, dmax)
             THEN rdp_scan_last_max(pts, i + 1, i, distance)
             ELSE rdp_scan_last_max(pts, i + 1, index, dmax)

\* The scan loop of rdp over the 0-based indices i .. len-2: the running
\* (index, dmax) pair after the loop.
RECURSIVE rdp_scan(_, _, _, _)
rdp_scan(pts, i, index, dmax) ==
    IF i > Len(pts) - 2 THEN [index |-> index, dmax |-> dmax]
    ELSE LET distance == euclidean_distance(pts[i + 1], Line(pts[1], pts[Len(pts)]))
         IN  IF RatGt(distance, dmax)
             THEN rdp_scan(pts, i + 1, i, distance)
             ELSE rdp_scan(pts, i + 1, index, dmax)

RECURSIVE rdp(_, _)

\* rdp with the pop applied to the suffix result instead of the prefix result.
rdp_pop_suffix(pts, eps) ==
    IF Len(pts) = 0 THEN pts
    ELSE LET scan == rdp_scan(pts, 1, 0, Zero)
         IN  IF exceeds(scan.dmax, eps)
             THEN LET tail == rdp(SubSeq(pts, scan.index + 1, Len(pts)), eps)
                  IN  rdp(SubSeq(pts, 1, scan.index + 1), eps)
                          \o SubSeq(tail, 1, Len(tail) - 1)
             ELSE <<pts[1], pts[Len(pts)]>>

\* rdp with the two branches of the tolerance test exchanged.
rdp_branches_swapped(pts, eps) ==
    IF Len(pts) = 0 THEN pts
    ELSE LET scan == rdp_scan(pts, 1, 0, Zero)
         IN  IF exceeds(scan.dmax, eps)
             THEN <<pts[1], pts[Len(pts)]>>
             ELSE pts

rdp(pts, eps) ==
    IF Len(pts) = 0 THEN pts
    ELSE LET scan == rdp_scan(pts, 1, 0, Zero)
         IN  IF exceeds(scan.dmax, eps)
             THEN LET intermediate == rdp(SubSeq(pts, 1, scan.index + 1), eps)
                  IN  SubSeq(intermediate, 1, Len(intermediate) - 1)
                          \o rdp(SubSeq(pts, scan.index + 1, Len(pts)), eps)
             ELSE <<pts[1], pts[Len(pts)]>>

\* LineString::simplify: the points of the LineString through rdp.
LineString_simplify(ls, eps) == rdp(ls, eps)

-----------------------------------------------------------------------------
(* The simplification machine: a caller holds a point sequence and calls   *)
(* rdp or LineString::simplify on it once.                                 *)

RdpGrid == {Point(x, y) : x \in 0..RdpMaxX, y \in 0..RdpMaxY}

SeqsUpTo(S, n) == UNION {[1..k -> S] : k \in 0..n}

\* Tolerances 0, 1/2, 1, ...
Epsilons == {Rat(k, 2) : k \in 0..RdpMaxEps}

NoIntersects ==
    /\ lhs = None
    /\ rhs = None
    /\ forward = None
    /\ backward = None

InitRdp ==
    /\ points \in SeqsUpTo(RdpGrid, RdpMaxLen)
    /\ clamped \in BOOLEAN
    /\ epsilon = None
    /\ callee = None
    /\ simplified = None
    /\ stack = <<>>
    /\ NoIntersects

CallRdp(eps) ==
    /\ callee = None
    /\ callee' = "rdp"
    /\ epsilon' = eps
    /\ simplified' = rdp(points, eps)
    /\ UNCHANGED <<points, clamped, lhs, rhs, forward, backward, stack>>

CallLineStringSimplify(eps) ==
    /\ callee = None
    /\ callee' = "LineString::simplify"
    /\ epsilon' = eps
    /\ simplified' = LineString_simplify(points, eps)
    /\ UNCHANGED <<points, clamped, lhs, rhs, forward, backward, stack>>

NextRdp ==
    \/ \E eps \in Epsilons : CallRdp(eps)
    \/ \E eps \in Epsilons : CallLineStringSimplify(eps)

SpecRdp == InitRdp /\ [][NextRdp]_vars

Called == callee # None

-----------------------------------------------------------------------------
(* Claims about rdp *)

\* C1: for a non-empty point sequence and a tolerance >= 0, the first and the
\* last point of the result are the first and the last point of the input.
C1_EndpointsPreserved ==
    (Called /\ Len(points) >= 1) =>
        /\ Len(simplified) >= 1
        /\ simplified[1] = points[1]
        /\ simplified[Len(simplified)] = points[Len(points)]

\* C1 witness: a four-point path with distinct ends was reduced to three points
\* by a split and still starts and ends where the input does.
C1_Witness ==
    /\ Called
    /\ Len(points) = 4
    /\ points[1] # points[4]
    /\ Len(simplified) = 3
    /\ simplified[1] = points[1]
    /\ simplified[3] = points[4]

\* C2: for a point sequence of any length and a tolerance >= 0, the result has
\* at most as many points as the input.
C2_LengthNotIncreased == Called => Len(simplified) <= Len(points)

\* C3: a sequence of zero points or of one point is returned unchanged, by rdp
\* and by LineString::simplify.
C3_ShortInputUnchanged == (Called /\ Len(points) <= 1) => simplified = points

\* C4: a larger tolerance never gives a longer result: for every tolerance e2
\* at least the one used, rdp(points, e2) is no longer than the result.
C4_MonotoneInEpsilon ==
    Called =>
        \A e2 \in Epsilons :
            RatGe(e2, epsilon) => Len(rdp(points, e2)) <= Len(simplified)

\* C4 witness: a larger tolerance gives a strictly shorter result than the one
\* returned.
C4_Witness ==
    /\ Called
    /\ \E e2 \in Epsilons :
          /\ RatGe(e2, epsilon)
          /\ Len(rdp(points, e2)) < Len(simplified)

-----------------------------------------------------------------------------
(* Scalars of the Intersects predicates *)

\* T::epsilon() for T = f32 is 2^-23 = 1 / EpsilonDen.
EpsilonDen == 8388608

\* The quotient n / d (d # 0) as an exact rational with a positive denominator.
Quot(n, d) == IF d < 0 THEN Rat(-n, -d) ELSE Rat(n, d)

\* T::zero() <= t && t <= T::one()
InUnit(t) == 0 <= t.num /\ t.num <= t.den

\* (a - b).abs() <= T::epsilon().  Equal quotients round to the same float and
\* distinct quotients of grid coordinates differ by far more than a rounding
\* error, so the exact difference decides.
WithinEpsilon(a, b) ==
    Abs(a.num * b.den - b.num * a.den) * EpsilonDen <= a.den * b.den

-----------------------------------------------------------------------------
(* Geometries *)

LineString(pts) == pts

Polygon(exterior, interiors) == [exterior |-> exterior, interiors |-> interiors]

Bbox(xmin, xmax, ymin, ymax) ==
    [xmin |-> xmin, xmax |-> xmax, ymin |-> ymin, ymax |-> ymax]

-----------------------------------------------------------------------------
(* Contains collaborators *)

\* p lies on the closed segment.
on_segment(p, line) ==
    /\ cross_prod(line.start, line.end, p) = 0
    /\ (line.start.x <= p.x /\ p.x <= line.end.x) \/ (line.end.x <= p.x /\ p.x <= line.start.x)
    /\ (line.start.y <= p.y /\ p.y <= line.end.y) \/ (line.end.y <= p.y /\ p.y <= line.start.y)

\* The segment crosses the horizontal ray from p towards +x.
crosses_ray(p, line) ==
    LET a == line.start
        b == line.end
    IN  /\ (a.y > p.y) # (b.y > p.y)
        /\ IF b.y > a.y
           THEN (p.x - a.x) * (b.y - a.y) < (p.y - a.y) * (b.x - a.x)
           ELSE (p.x - a.x) * (b.y - a.y) > (p.y - a.y) * (b.x - a.x)

\* Where p lies relative to a ring: on it, inside it (odd crossing number) or
\* outside it.
get_position(p, ring) ==
    LET segs == lines(ring)
    IN  IF \E i \in DOMAIN segs : on_segment(p, segs[i]) THEN "OnBoundary"
        ELSE IF Cardinality({i \in DOMAIN segs : crosses_ray(p, segs[i])}) % 2 = 1
             THEN "Inside"
             ELSE "Outside"

\* Contains(polygon, point): inside the exterior and outside every interior.
Polygon_contains_Point(polygon, p) ==
    /\ get_position(p, polygon.exterior) = "Inside"
    /\ \A k \in DOMAIN polygon.interiors :
          get_position(p, polygon.interiors[k]) = "Outside"

\* Contains(bbox, bbox): self covers the other box on both axes.
Bbox_contains_Bbox(self, bbox) ==
    /\ self.xmin <= bbox.xmin
    /\ self.xmax >= bbox.xmax
    /\ self.ymin <= bbox.ymin
    /\ self.ymax >= bbox.ymax

-----------------------------------------------------------------------------
(* The Intersects predicates, one per impl *)

\* Line x Point without the range test on the slanted branch: the infinite
\* line instead of the segment.
Line_intersects_Point_unbounded(self, p) ==
    LET tx_none == dx(self) = 0
        ty_none == dy(self) = 0
        tx == Quot(p.x - self.start.x, dx(self))
        ty == Quot(p.y - self.start.y, dy(self))
    IN  IF tx_none /\ ty_none THEN p = self.start
        ELSE IF ty_none THEN p.y = self.start.y /\ InUnit(tx)
        ELSE IF tx_none THEN p.x = self.start.x /\ InUnit(ty)
        ELSE WithinEpsilon(tx, ty)

Line_intersects_Point(self, p) ==
    LET tx_none == dx(self) = 0
        ty_none == dy(self) = 0
        tx == Quot(p.x - self.start.x, dx(self))
        ty == Quot(p.y - self.start.y, dy(self))
    IN  IF tx_none /\ ty_none THEN p = self.start
        ELSE IF ty_none THEN p.y = self.start.y /\ InUnit(tx)
        ELSE IF tx_none THEN p.x = self.start.x /\ InUnit(ty)
        ELSE WithinEpsilon(tx, ty) /\ InUnit(tx)

Point_intersects_Line(self, line) == Line_intersects_Point(line, self)

\* Line x Line whose parallel fallback tests the endpoints of self only.
Line_intersects_Line_own_endpoints(self, line) ==
    LET a1 == dx(self)
        a2 == dy(self)
        b1 == -dx(line)
        b2 == -dy(line)
        c1 == line.start.x - self.start.x
        c2 == line.start.y - self.start.y
        d  == a1 * b2 - a2 * b1
    IN  IF d = 0
        THEN \/ Point_intersects_Line(self.start, line)
             \/ Point_intersects_Line(self.end, line)
        ELSE LET s == Quot(c1 * b2 - c2 * b1, d)
                 t == Quot(a1 * c2 - a2 * c1, d)
             IN  InUnit(s) /\ InUnit(t)

Line_intersects_Line(self, line) ==
    LET a1 == dx(self)
        a2 == dy(self)
        b1 == -dx(line)
        b2 == -dy(line)
        c1 == line.start.x - self.start.x
        c2 == line.start.y - self.start.y
        d  == a1 * b2 - a2 * b1
    IN  IF d = 0
        THEN \/ Point_intersects_Line(self.start, line)
             \/ Point_intersects_Line(self.end, line)
             \/ Point_intersects_Line(line.start, self)
             \/ Point_intersects_Line(line.end, self)
        ELSE LET s == Quot(c1 * b2 - c2 * b1, d)
                 t == Quot(a1 * c2 - a2 * c1, d)
             IN  InUnit(s) /\ InUnit(t)

\* Line x LineString with all() in place of any().
Line_intersects_LineString_all(self, linestring) ==
    \A i \in DOMAIN lines(linestring) : Line_intersects_Line(self, lines(linestring)[i])

Line_intersects_LineString(self, linestring) ==
    \E i \in DOMAIN lines(linestring) : Line_intersects_Line(self, lines(linestring)[i])

LineString_intersects_Line(self, line) == Line_intersects_LineString(line, self)

\* Line x Polygon without the containment tests of the endpoints.
Line_intersects_Polygon_rings_only(self, p) ==
    \/ LineString_intersects_Line(p.exterior, self)
    \/ \E k \in DOMAIN p.interiors : LineString_intersects_Line(p.interiors[k], self)

Line_intersects_Polygon(self, p) ==
    \/ LineString_intersects_Line(p.exterior, self)
    \/ \E k \in DOMAIN p.interiors : LineString_intersects_Line(p.interiors[k], self)
    \/ Polygon_contains_Point(p, self.start)
    \/ Polygon_contains_Point(p, self.end)

Polygon_intersects_Line(self, line) == Line_intersects_Polygon(line, self)

\* The segment pair test with the parameter ranges taken open.
segments_cross_open(a, b) ==
    LET u_b  == dy(b) * dx(a) - dx(b) * dy(a)
        ua_t == dx(b) * (a.start.y - b.start.y) - dy(b) * (a.start.x - b.start.x)
        ub_t == dx(a) * (a.start.y - b.start.y) - dy(a) * (a.start.x - b.start.x)
        u_a  == Quot(ua_t, u_b)
        u_bq == Quot(ub_t, u_b)
    IN  IF u_b = 0 THEN FALSE
        ELSE /\ 0 < u_a.num /\ u_a.num < u_a.den
             /\ 0 < u_bq.num /\ u_bq.num < u_bq.den

\* The test of one segment pair (a of self, b of the other) in
\* LineString x LineString.
segments_cross(a, b) ==
    LET u_b  == dy(b) * dx(a) - dx(b) * dy(a)
        ua_t == dx(b) * (a.start.y - b.start.y) - dy(b) * (a.start.x - b.start.x)
        ub_t == dx(a) * (a.start.y - b.start.y) - dy(a) * (a.start.x - b.start.x)
    IN  IF u_b = 0 THEN FALSE
        ELSE InUnit(Quot(ua_t, u_b)) /\ InUnit(Quot(ub_t, u_b))

LineString_intersects_LineString(self, linestring) ==
    IF Len(self) = 0 \/ Len(linestring) = 0 THEN FALSE
    ELSE \E i \in DOMAIN lines(self) : \E j \in DOMAIN lines(linestring) :
            segments_cross(lines(self)[i], lines(linestring)[j])

Polygon_intersects_LineString(self, linestring) ==
    IF \/ LineString_intersects_LineString(self.exterior, linestring)
       \/ \E k \in DOMAIN self.interiors :
             LineString_intersects_LineString(self.interiors[k], linestring)
    THEN TRUE
    ELSE \E i \in DOMAIN linestring : Polygon_contains_Point(self, linestring[i])

LineString_intersects_Polygon(self, polygon) ==
    Polygon_intersects_LineString(polygon, self)

Bbox_intersects_Bbox(self, bbox) ==
    IF Bbox_contains_Bbox(bbox, self) THEN FALSE
    ELSE /\ \/ self.xmin >= bbox.xmin /\ self.xmin <= bbox.xmax
            \/ self.xmax >= bbox.xmin /\ self.xmax <= bbox.xmax
         /\ \/ self.ymin >= bbox.ymin /\ self.ymin <= bbox.ymax
            \/ self.ymax >= bbox.ymin /\ self.ymax <= bbox.ymax

\* Polygon x Polygon without the test of self's exterior against the other
\* polygon.
Polygon_intersects_Polygon_no_reverse(self, polygon) ==
    \/ Polygon_intersects_LineString(self, polygon.exterior)
    \/ \E k \in DOMAIN polygon.interiors :
          Polygon_intersects_LineString(self, polygon.interiors[k])

Polygon_intersects_Polygon(self, polygon) ==
    \/ Polygon_intersects_LineString(self, polygon.exterior)
    \/ \E k \in DOMAIN polygon.interiors :
          Polygon_intersects_LineString(self, polygon.interiors[k])
    \/ Polygon_intersects_LineString(polygon, self.exterior)

\* The closed five-point ring of a box.
bbox_ring(bbox) ==
    LineString(<<Point(bbox.xmin, bbox.ymin), Point(bbox.xmin, bbox.ymax),
                 Point(bbox.xmax, bbox.ymax), Point(bbox.xmax, bbox.ymin),
                 Point(bbox.xmin, bbox.ymin)>>)

\* Polygon x Bbox on the exterior ring of the polygon alone.
Polygon_intersects_Bbox_no_holes(self, bbox) ==
    Polygon_intersects_Polygon(Polygon(self.exterior, <<>>),
                               Polygon(bbox_ring(bbox), <<>>))

Polygon_intersects_Bbox(self, bbox) ==
    Polygon_intersects_Polygon(self, Polygon(bbox_ring(bbox), <<>>))

Bbox_intersects_Polygon(self, polygon) == Polygon_intersects_Bbox(polygon, self)

-----------------------------------------------------------------------------
(* Bounds of the Intersects models *)

IntMax == 2
LsMaxLen == 3
BoxMax == 3
PolyMaxX == 5
PolyMaxY == 3

-----------------------------------------------------------------------------
(* The Intersects machine: a caller holds two geometries, asks             *)
(* lhs.intersects(rhs) and then rhs.intersects(lhs).  Rust picks the impl  *)
(* by the two types, here by the `kind` tags.                              *)

Geom(kind, v) == [kind |-> kind, v |-> v]

Directions == {"forward", "backward"}

Self(d) == IF d = "forward" THEN lhs ELSE rhs

Arg(d) == IF d = "forward" THEN rhs ELSE lhs

\* The call in direction d is the next one, on a self of kind selfKind and an
\* argument of kind argKind.
Call(d, selfKind, argKind) ==
    /\ IF d = "forward" THEN forward = <<>> ELSE forward # <<>> /\ backward = <<>>
    /\ Self(d).kind = selfKind
    /\ Arg(d).kind = argKind

Answer(d, result) ==
    /\ forward' = IF d = "forward" THEN <<result>> ELSE forward
    /\ backward' = IF d = "backward" THEN <<result>> ELSE backward
    /\ UNCHANGED <<points, epsilon, callee, simplified, clamped, lhs, rhs, stack>>

LineIntersectsPoint ==
    \E d \in Directions :
        /\ Call(d, "Line", "Point")
        /\ Answer(d, Line_intersects_Point(Self(d).v, Arg(d).v))

PointIntersectsLine ==
    \E d \in Directions :
        /\ Call(d, "Point", "Line")
        /\ Answer(d, Point_intersects_Line(Self(d).v, Arg(d).v))

LineIntersectsLine ==
    \E d \in Directions :
        /\ Call(d, "Line", "Line")
        /\ Answer(d, Line_intersects_Line(Self(d).v, Arg(d).v))

LineIntersectsLineString ==
    \E d \in Directions :
        /\ Call(d, "Line", "LineString")
        /\ Answer(d, Line_intersects_LineString(Self(d).v, Arg(d).v))

LineStringIntersectsLine ==
    \E d \in Directions :
        /\ Call(d, "LineString", "Line")
        /\ Answer(d, LineString_intersects_Line(Self(d).v, Arg(d).v))

LineIntersectsPolygon ==
    \E d \in Directions :
        /\ Call(d, "Line", "Polygon")
        /\ Answer(d, Line_intersects_Polygon(Self(d).v, Arg(d).v))

PolygonIntersectsLine ==
    \E d \in Directions :
        /\ Call(d, "Polygon", "Line")
        /\ Answer(d, Polygon_intersects_Line(Self(d).v, Arg(d).v))

LineStringIntersectsLineString ==
    \E d \in Directions :
        /\ Call(d, "LineString", "LineString")
        /\ Answer(d, LineString_intersects_LineString(Self(d).v, Arg(d).v))

PolygonIntersectsLineString ==
    \E d \in Directions :
        /\ Call(d, "Polygon", "LineString")
        /\ Answer(d, Polygon_intersects_LineString(Self(d).v, Arg(d).v))

LineStringIntersectsPolygon ==
    \E d \in Directions :
        /\ Call(d, "LineString", "Polygon")
        /\ Answer(d, LineString_intersects_Polygon(Self(d).v, Arg(d).v))

BboxIntersectsBbox ==
    \E d \in Directions :
        /\ Call(d, "Bbox", "Bbox")
        /\ Answer(d, Bbox_intersects_Bbox(Self(d).v, Arg(d).v))

BboxIntersectsPolygon ==
    \E d \in Directions :
        /\ Call(d, "Bbox", "Polygon")
        /\ Answer(d, Bbox_intersects_Polygon(Self(d).v, Arg(d).v))

PolygonIntersectsBbox ==
    \E d \in Directions :
        /\ Call(d, "Polygon", "Bbox")
        /\ Answer(d, Polygon_intersects_Bbox(Self(d).v, Arg(d).v))

PolygonIntersectsPolygon ==
    \E d \in Directions :
        /\ Call(d, "Polygon", "Polygon")
        /\ Answer(d, Polygon_intersects_Polygon(Self(d).v, Arg(d).v))

NoRdp ==
    /\ points = None
    /\ epsilon = None
    /\ callee = None
    /\ simplified = None
    /\ clamped = FALSE
    /\ stack = <<>>

\* Both answers are in.
BothAnswered == forward # <<>> /\ backward # <<>>

-----------------------------------------------------------------------------
(* Geometries on the grid 0..n x 0..n *)

GridPoints(n) == {Point(x, y) : x \in 0..n, y \in 0..n}

GridLines(n) == {Line(s, e) : s \in GridPoints(n), e \in GridPoints(n)}

\* Normalized boxes on 0..nx x 0..ny: xmin <= xmax and ymin <= ymax.
GridBoxes(nx, ny) ==
    {b \in [xmin : 0..nx, xmax : 0..nx, ymin : 0..ny, ymax : 0..ny] :
        b.xmin <= b.xmax /\ b.ymin <= b.ymax}

\* Boxes of non-zero width and height.
ProperBoxes(nx, ny) == {b \in GridBoxes(nx, ny) : b.xmin < b.xmax /\ b.ymin < b.ymax}

\* Boxes one unit wide and one unit high.
UnitBoxes(nx, ny) ==
    {b \in GridBoxes(nx, ny) : b.xmax = b.xmin + 1 /\ b.ymax = b.ymin + 1}

HoleFreePolygons(exteriors) == {Polygon(bbox_ring(e), <<>>) : e \in exteriors}

\* Polygons whose exterior is the closed ring of a box, with no hole or with
\* one hole, itself the closed ring of a box, placed anywhere.
RectPolygons(exteriors, holes) ==
    HoleFreePolygons(exteriors)
        \cup {Polygon(bbox_ring(e), <<bbox_ring(h)>>) : e \in exteriors, h \in holes}

GridPolygons(n) == RectPolygons(ProperBoxes(n, n), ProperBoxes(n, n))

-----------------------------------------------------------------------------
(* The symmetric pairs: Point/Line, Line/Line, Line/LineString,            *)
(* Line/Polygon, LineString/LineString, LineString/Polygon, Bbox/Polygon   *)

LineStrings == SeqsUpTo(GridPoints(IntMax), LsMaxLen)

\* LineStrings of one segment at most.
ShortLineStrings == SeqsUpTo(GridPoints(IntMax), 2)

Tagged(kind, S) == {Geom(kind, v) : v \in S}

SymmetricPairs ==
    (Tagged("Line", GridLines(IntMax)) \X Tagged("Point", GridPoints(IntMax)))
        \cup (Tagged("Line", GridLines(IntMax)) \X Tagged("Line", GridLines(IntMax)))
        \cup (Tagged("Line", GridLines(IntMax)) \X Tagged("LineString", LineStrings))
        \cup (Tagged("Line", GridLines(IntMax)) \X Tagged("Polygon", GridPolygons(IntMax)))
        \cup (Tagged("LineString", LineStrings) \X Tagged("LineString", ShortLineStrings))
        \cup (Tagged("LineString", ShortLineStrings) \X Tagged("Polygon", GridPolygons(IntMax)))
        \cup (Tagged("Bbox", GridBoxes(IntMax, IntMax)) \X Tagged("Polygon", GridPolygons(IntMax)))

InitIntersects ==
    /\ \E pair \in SymmetricPairs : lhs = pair[1] /\ rhs = pair[2]
    /\ forward = <<>>
    /\ backward = <<>>
    /\ NoRdp

NextIntersects ==
    \/ LineIntersectsPoint
    \/ PointIntersectsLine
    \/ LineIntersectsLine
    \/ LineIntersectsLineString
    \/ LineStringIntersectsLine
    \/ LineIntersectsPolygon
    \/ PolygonIntersectsLine
    \/ LineStringIntersectsLineString
    \/ LineStringIntersectsPolygon
    \/ PolygonIntersectsLineString
    \/ BboxIntersectsPolygon
    \/ PolygonIntersectsBbox

SpecIntersects == InitIntersects /\ [][NextIntersects]_vars

\* C5: for the pairs Point/Line, Line/Line, Line/LineString, Line/Polygon,
\* LineString/LineString, LineString/Polygon and Bbox/Polygon, swapping the
\* arguments of intersects does not change the answer.
C5_SwapSymmetric == BothAnswered => forward = backward

\* C5 witness: two parallel segments, decided by the endpoint fallback, that
\* intersect in both directions.
C5_Witness ==
    /\ BothAnswered
    /\ lhs.kind = "Line"
    /\ rhs.kind = "Line"
    /\ lhs.v # rhs.v
    /\ dx(lhs.v) * dy(rhs.v) = dy(lhs.v) * dx(rhs.v)
    /\ dx(lhs.v) # 0
    /\ dx(rhs.v) # 0
    /\ forward = <<TRUE>>
    /\ backward = <<TRUE>>

\* The geometry is an empty LineString.
IsEmptyLineString(g) == g.kind = "LineString" /\ g.v = <<>>

\* C9: an empty LineString intersects nothing: with an empty LineString on
\* either side (against a LineString, a Line or a Polygon) both answers are
\* false.
C9_EmptyLineStringIntersectsNothing ==
    (BothAnswered /\ (IsEmptyLineString(lhs) \/ IsEmptyLineString(rhs))) =>
        (forward = <<FALSE>> /\ backward = <<FALSE>>)

\* C9 witness: a Line of non-zero length met an empty LineString and both
\* answers are false.
C9_Witness ==
    /\ BothAnswered
    /\ lhs.kind = "Line"
    /\ lhs.v.start # lhs.v.end
    /\ IsEmptyLineString(rhs)
    /\ forward = <<FALSE>>
    /\ backward = <<FALSE>>

\* p lies on the closed segment from line.start to line.end: p = start +
\* t (end - start) for some 0 <= t <= 1.
OnClosedSegment(p, line) ==
    LET len2 == Sq(dx(line)) + Sq(dy(line))
        proj == (p.x - line.start.x) * dx(line) + (p.y - line.start.y) * dy(line)
    IN  IF len2 = 0 THEN p = line.start
        ELSE /\ (p.x - line.start.x) * dy(line) = (p.y - line.start.y) * dx(line)
             /\ 0 <= proj
             /\ proj <= len2

\* C10: Line x Point and Point x Line are true exactly when the point lies on
\* the closed segment (for a degenerate line: when it equals its one point).
C10_PointOnSegment ==
    (BothAnswered /\ lhs.kind = "Line" /\ rhs.kind = "Point") =>
        /\ forward = <<OnClosedSegment(rhs.v, lhs.v)>>
        /\ backward = <<OnClosedSegment(rhs.v, lhs.v)>>

\* C10 witness: a point on the infinite extension of a slanted segment, outside
\* the segment, is answered false in both directions.
C10_Witness ==
    /\ BothAnswered
    /\ lhs.kind = "Line"
    /\ rhs.kind = "Point"
    /\ dx(lhs.v) # 0
    /\ dy(lhs.v) # 0
    /\ (rhs.v.x - lhs.v.start.x) * dy(lhs.v) = (rhs.v.y - lhs.v.start.y) * dx(lhs.v)
    /\ ~OnClosedSegment(rhs.v, lhs.v)
    /\ forward = <<FALSE>>
    /\ backward = <<FALSE>>

-----------------------------------------------------------------------------
(* Point x Line alone *)

InitPointLine ==
    /\ lhs \in Tagged("Line", GridLines(IntMax))
    /\ rhs \in Tagged("Point", GridPoints(IntMax))
    /\ forward = <<>>
    /\ backward = <<>>
    /\ NoRdp

NextPointLine ==
    \/ LineIntersectsPoint
    \/ PointIntersectsLine

SpecPointLine == InitPointLine /\ [][NextPointLine]_vars

-----------------------------------------------------------------------------
(* An empty LineString against a LineString, a Line or a Polygon *)

EmptyPairs ==
    (Tagged("LineString", {<<>>}) \X Tagged("LineString", LineStrings))
        \cup (Tagged("LineString", LineStrings) \X Tagged("LineString", {<<>>}))
        \cup (Tagged("Line", GridLines(IntMax)) \X Tagged("LineString", {<<>>}))
        \cup (Tagged("LineString", {<<>>}) \X Tagged("Polygon", GridPolygons(IntMax)))

InitEmpty ==
    /\ \E pair \in EmptyPairs : lhs = pair[1] /\ rhs = pair[2]
    /\ forward = <<>>
    /\ backward = <<>>
    /\ NoRdp

NextEmpty ==
    \/ LineStringIntersectsLineString
    \/ LineIntersectsLineString
    \/ LineStringIntersectsLine
    \/ LineStringIntersectsPolygon
    \/ PolygonIntersectsLineString

SpecEmpty == InitEmpty /\ [][NextEmpty]_vars

-----------------------------------------------------------------------------
(* Polygon x Polygon *)

\* One polygon of the wide grid, with no hole or a unit hole, against a
\* hole-free one; and two polygons of the square grid, each with no hole or a
\* unit hole.
PolygonPairs ==
    (RectPolygons(ProperBoxes(PolyMaxX, PolyMaxY), UnitBoxes(PolyMaxX, PolyMaxY))
        \X HoleFreePolygons(ProperBoxes(PolyMaxX, PolyMaxY)))
    \cup (RectPolygons(ProperBoxes(PolyMaxY, PolyMaxY), UnitBoxes(PolyMaxY, PolyMaxY))
        \X RectPolygons(ProperBoxes(PolyMaxY, PolyMaxY), UnitBoxes(PolyMaxY, PolyMaxY)))

InitPolygon ==
    /\ \E pair \in PolygonPairs :
          lhs = Geom("Polygon", pair[1]) /\ rhs = Geom("Polygon", pair[2])
    /\ forward = <<>>
    /\ backward = <<>>
    /\ NoRdp

NextPolygon == PolygonIntersectsPolygon

SpecPolygon == InitPolygon /\ [][NextPolygon]_vars

InteriorsWithinExterior(polygon) ==
    \A k \in DOMAIN polygon.interiors : \A i \in DOMAIN polygon.interiors[k] :
        get_position(polygon.interiors[k][i], polygon.exterior) # "Outside"

\* The point (x2 / 2, y2 / 2) belongs to the closed region of the polygon: the
\* closed exterior box without the open boxes of the holes.  Rings here are
\* the five-point rings of boxes: ring[1] and ring[3] are opposite corners.
InRegion(x2, y2, polygon) ==
    /\ 2 * polygon.exterior[1].x <= x2 /\ x2 <= 2 * polygon.exterior[3].x
    /\ 2 * polygon.exterior[1].y <= y2 /\ y2 <= 2 * polygon.exterior[3].y
    /\ \A k \in DOMAIN polygon.interiors :
          ~ /\ 2 * polygon.interiors[k][1].x < x2 /\ x2 < 2 * polygon.interiors[k][3].x
            /\ 2 * polygon.interiors[k][1].y < y2 /\ y2 < 2 * polygon.interiors[k][3].y

\* The regions of two polygons share a point.  All ring edges lie on integer
\* grid lines, so every face, edge and vertex of their overlay holds a point
\* with half-integer coordinates.
RegionsMeet(p, q) ==
    \E x2 \in 0..(2 * PolyMaxX) : \E y2 \in 0..(2 * PolyMaxY) :
        InRegion(x2, y2, p) /\ InRegion(x2, y2, q)

-----------------------------------------------------------------------------
(* Bbox x Bbox *)

InitBbox ==
    /\ lhs \in Tagged("Bbox", GridBoxes(BoxMax, BoxMax))
    /\ rhs \in Tagged("Bbox", GridBoxes(BoxMax, BoxMax))
    /\ forward = <<>>
    /\ backward = <<>>
    /\ NoRdp

NextBbox == BboxIntersectsBbox

SpecBbox == InitBbox /\ [][NextBbox]_vars

\* C6: when lhs fully contains rhs (normalized boxes), lhs.intersects(rhs) and
\* rhs.intersects(lhs) are both false.
C6_ContainmentExcludesIntersection ==
    (BothAnswered /\ Bbox_contains_Bbox(lhs.v, rhs.v)) =>
        (forward = <<FALSE>> /\ backward = <<FALSE>>)

\* The x-intervals and the y-intervals of two normalized boxes overlap.
intervals_overlap(a, b) ==
    /\ a.xmin <= b.xmax /\ b.xmin <= a.xmax
    /\ a.ymin <= b.ymax /\ b.ymin <= a.ymax

\* C7: when two normalized boxes overlap on both axes and neither contains the
\* other, lhs.intersects(rhs) and rhs.intersects(lhs) are both true.
C7_PartialOverlapIntersects ==
    ( /\ BothAnswered
      /\ intervals_overlap(lhs.v, rhs.v)
      /\ ~Bbox_contains_Bbox(lhs.v, rhs.v)
      /\ ~Bbox_contains_Bbox(rhs.v, lhs.v) ) =>
        (forward = <<TRUE>> /\ backward = <<TRUE>>)

-----------------------------------------------------------------------------
(* Plane geometry of segments and boxes, the reference the predicates are  *)
(* compared with                                                           *)

\* The closed segments a and b share a point: they cross properly, or an
\* endpoint of one lies on the other.
SegmentsMeet(a, b) ==
    LET d1 == cross_prod(b.start, b.end, a.start)
        d2 == cross_prod(b.start, b.end, a.end)
        d3 == cross_prod(a.start, a.end, b.start)
        d4 == cross_prod(a.start, a.end, b.end)
    IN  \/ d1 * d2 < 0 /\ d3 * d4 < 0
        \/ OnClosedSegment(a.start, b)
        \/ OnClosedSegment(a.end, b)
        \/ OnClosedSegment(b.start, a)
        \/ OnClosedSegment(b.end, a)

\* The segment shares a point with some edge of the ring.
MeetsRing(line, ring) ==
    \E i \in DOMAIN lines(ring) : SegmentsMeet(line, lines(ring)[i])

\* The box of a five-point box ring: ring[1] and ring[3] are opposite corners.
RingBox(ring) == Bbox(ring[1].x, ring[3].x, ring[1].y, ring[3].y)

\* p lies in the open box.
StrictlyInBox(p, b) ==
    b.xmin < p.x /\ p.x < b.xmax /\ b.ymin < p.y /\ p.y < b.ymax

\* The segment touches no ring of the polygon.
LineTouchesNoRing(line, polygon) ==
    /\ ~MeetsRing(line, polygon.exterior)
    /\ \A k \in DOMAIN polygon.interiors : ~MeetsRing(line, polygon.interiors[k])

\* The segment lies in the open exterior box and outside every closed hole
\* box (boxes are convex, so the endpoints and the rings decide).
LineInSolidArea(line, polygon) ==
    /\ StrictlyInBox(line.start, RingBox(polygon.exterior))
    /\ StrictlyInBox(line.end, RingBox(polygon.exterior))
    /\ LineTouchesNoRing(line, polygon)
    /\ \A k \in DOMAIN polygon.interiors :
          ~StrictlyInBox(line.start, RingBox(polygon.interiors[k]))

\* The segment lies in the open box of some hole and touches no ring.
LineInHole(line, polygon) ==
    /\ LineTouchesNoRing(line, polygon)
    /\ \E k \in DOMAIN polygon.interiors :
          /\ StrictlyInBox(line.start, RingBox(polygon.interiors[k]))
          /\ StrictlyInBox(line.end, RingBox(polygon.interiors[k]))

-----------------------------------------------------------------------------
(* Line x Polygon alone *)

LpMax == 3

InitLinePolygon ==
    /\ lhs \in Tagged("Line", GridLines(LpMax))
    /\ rhs \in Tagged("Polygon", GridPolygons(LpMax))
    /\ forward = <<>>
    /\ backward = <<>>
    /\ NoRdp

NextLinePolygon ==
    \/ LineIntersectsPolygon
    \/ PolygonIntersectsLine

SpecLinePolygon == InitLinePolygon /\ [][NextLinePolygon]_vars

\* C11: Line x Polygon and Polygon x Line are true exactly when the segment
\* shares a point with the exterior ring or with some interior ring, or one of
\* its endpoints is contained in the polygon; a segment in the solid area
\* touching no ring is answered true, a segment in a hole touching no ring is
\* answered false.
C11_LinePolygon ==
    BothAnswered =>
        /\ forward = backward
        /\ forward = << \/ MeetsRing(lhs.v, rhs.v.exterior)
                        \/ \E k \in DOMAIN rhs.v.interiors :
                              MeetsRing(lhs.v, rhs.v.interiors[k])
                        \/ Polygon_contains_Point(rhs.v, lhs.v.start)
                        \/ Polygon_contains_Point(rhs.v, lhs.v.end) >>
        /\ LineInSolidArea(lhs.v, rhs.v) => forward = <<TRUE>>
        /\ LineInHole(lhs.v, rhs.v) => forward = <<FALSE>>

\* C11 witness: a segment of non-zero length inside a hole, touching no ring,
\* is answered false in both directions.
C11_Witness ==
    /\ BothAnswered
    /\ lhs.v.start # lhs.v.end
    /\ LineInHole(lhs.v, rhs.v)
    /\ forward = <<FALSE>>
    /\ backward = <<FALSE>>

-----------------------------------------------------------------------------
(* Polygon x LineString with the LineString on the exterior ring *)

BdMax == 3

\* Hole-free polygons against LineStrings of up to LsMaxLen points, polygons
\* with a unit hole against LineStrings of up to two points.
BoundaryPairs ==
    (HoleFreePolygons(ProperBoxes(BdMax, BdMax))
        \X SeqsUpTo(GridPoints(BdMax), LsMaxLen))
    \cup ((RectPolygons(ProperBoxes(BdMax, BdMax), UnitBoxes(BdMax, BdMax))
              \ HoleFreePolygons(ProperBoxes(BdMax, BdMax)))
        \X SeqsUpTo(GridPoints(BdMax), 2))

InitBoundary ==
    /\ \E pair \in BoundaryPairs :
          lhs = Geom("Polygon", pair[1]) /\ rhs = Geom("LineString", pair[2])
    /\ forward = <<>>
    /\ backward = <<>>
    /\ NoRdp

NextBoundary ==
    \/ PolygonIntersectsLineString
    \/ LineStringIntersectsPolygon

SpecBoundary == InitBoundary /\ [][NextBoundary]_vars

\* The LineString has at least two points and each of its segments lies on
\* one edge of the ring (the whole edge or a part of it).
OnRing(ls, ring) ==
    /\ Len(ls) >= 2
    /\ \A i \in DOMAIN lines(ls) : \E j \in DOMAIN lines(ring) :
          /\ OnClosedSegment(lines(ls)[i].start, lines(ring)[j])
          /\ OnClosedSegment(lines(ls)[i].end, lines(ring)[j])

\* Some segment of non-zero length of the LineString holds a vertex of the
\* ring.  Every vertex of a box ring is a corner.
ReachesCorner(ls, ring) ==
    \E i \in DOMAIN lines(ls) :
        /\ lines(ls)[i].start # lines(ls)[i].end
        /\ \E j \in DOMAIN ring : OnClosedSegment(ring[j], lines(ls)[i])

-----------------------------------------------------------------------------
(* Bbox x Polygon alone *)

BpMax == 2
BpWide == 5

\* The squares with two corners on the diagonal of 0..n x 0..n.
DiagonalSquares(n) == {Bbox(a, b, a, b) : a \in 0..n, b \in 0..n} \cap ProperBoxes(n, n)

\* The one-point boxes on the diagonal of 0..n x 0..n.
DiagonalPoints(n) == {Bbox(a, a, a, a) : a \in 0..n}

\* Every box against every box polygon of the small grid; nested and separate
\* squares of the wide grid.
BboxPolygonPairs ==
    (GridBoxes(BpMax, BpMax) \X GridPolygons(BpMax))
    \cup ((DiagonalSquares(BpWide) \cup DiagonalPoints(BpWide))
        \X RectPolygons(DiagonalSquares(BpWide), DiagonalSquares(BpWide)))

InitBboxPolygon ==
    /\ \E pair \in BboxPolygonPairs :
          lhs = Geom("Bbox", pair[1]) /\ rhs = Geom("Polygon", pair[2])
    /\ forward = <<>>
    /\ backward = <<>>
    /\ NoRdp

NextBboxPolygon ==
    \/ BboxIntersectsPolygon
    \/ PolygonIntersectsBbox

SpecBboxPolygon == InitBboxPolygon /\ [][NextBboxPolygon]_vars

\* The closed box b lies in the open box outer.
BoxStrictlyIn(b, outer) ==
    /\ outer.xmin < b.xmin /\ b.xmax < outer.xmax
    /\ outer.ymin < b.ymin /\ b.ymax < outer.ymax

\* The closed boxes share no point.
BoxesApart(b, c) ==
    \/ b.xmax < c.xmin \/ c.xmax < b.xmin
    \/ b.ymax < c.ymin \/ c.ymax < b.ymin

\* The outline of the box shares no point with the ring.
BoxTouchesNoRing(b, polygon) ==
    \A i \in DOMAIN lines(bbox_ring(b)) :
        LineTouchesNoRing(lines(bbox_ring(b))[i], polygon)

\* The box lies inside the exterior ring and outside every hole, touching no
\* ring.
BoxInSolidArea(b, polygon) ==
    /\ BoxStrictlyIn(b, RingBox(polygon.exterior))
    /\ \A k \in DOMAIN polygon.interiors : BoxesApart(b, RingBox(polygon.interiors[k]))

\* The box lies inside a hole, touching no ring.
BoxInHole(b, polygon) ==
    /\ \E k \in DOMAIN polygon.interiors : BoxStrictlyIn(b, RingBox(polygon.interiors[k]))
    /\ BoxTouchesNoRing(b, polygon)

\* Both answers equal polygon.intersects(R), R the hole-free polygon of the
\* five-point ring of the box.
AnswersAreOfRing ==
    /\ forward = backward
    /\ forward = <<Polygon_intersects_Polygon(rhs.v, Polygon(bbox_ring(lhs.v), <<>>))>>

\* C13 as stated: in both directions a box in the solid area of the polygon
\* intersects it, a box in a hole does not, and the answer is that of the
\* polygon against the rectangle of the box.
C13_BboxPolygon ==
    BothAnswered =>
        /\ AnswersAreOfRing
        /\ BoxInSolidArea(lhs.v, rhs.v) => forward = <<TRUE>>
        /\ BoxInHole(lhs.v, rhs.v) => forward = <<FALSE>>

\* C13 amended: as C13, the hole case for polygons whose interior rings lie
\* within their exterior ring.
C13_BboxValidPolygon ==
    BothAnswered =>
        /\ AnswersAreOfRing
        /\ BoxInSolidArea(lhs.v, rhs.v) => forward = <<TRUE>>
        /\ (BoxInHole(lhs.v, rhs.v) /\ InteriorsWithinExterior(rhs.v)) =>
              forward = <<FALSE>>

\* C13 witness: a box of non-zero area inside the hole of a polygon whose hole
\* lies strictly within its exterior is answered false in both directions.
C13_Witness ==
    /\ BothAnswered
    /\ lhs.v.xmin < lhs.v.xmax
    /\ lhs.v.ymin < lhs.v.ymax
    /\ BoxInHole(lhs.v, rhs.v)
    /\ BoxStrictlyIn(RingBox(rhs.v.interiors[1]), RingBox(rhs.v.exterior))
    /\ forward = <<FALSE>>
    /\ backward = <<FALSE>>

-----------------------------------------------------------------------------
(* rdp call by call: every call of rdp is a frame on the stack, and the    *)
(* stack holds StackLimit frames at most.                                  *)

StepMaxLen == 3

\* A call tree of rdp that returns is at most Len(points) - 1 frames deep
\* (each call with a tolerance >= 0 is on a shorter slice of at least three
\* points, down to a slice of two); a deeper call is the sign of a recursion
\* that repeats a call and never returns.
StackLimit == StepMaxLen + 1

\* Tolerances -1/2, 0, 1/2, 1, ...
SignedEpsilons == {Rat(k, 2) : k \in -1..RdpMaxEps}

\* A call of rdp on the slice pts.  at is the position in the body: "entry",
\* "prefix" (in the first recursive call), "popped" (first call back, its
\* last point removed), "suffix" (in the second recursive call) or "return";
\* index is the split index; value is intermediate, then the return value.
Frame(pts) == [pts |-> pts, at |-> "entry", index |-> 0, value |-> <<>>]

Top == stack[Len(stack)]

\* The stack with its innermost frame replaced.
WithTop(frame) == [stack EXCEPT ![Len(stack)] = frame]

InitRdpSteps ==
    /\ points \in SeqsUpTo(RdpGrid, StepMaxLen)
    /\ clamped \in BOOLEAN
    /\ epsilon = None
    /\ callee = None
    /\ simplified = None
    /\ stack = <<>>
    /\ NoIntersects

\* The caller calls rdp(points, eps).
RdpCall(eps) ==
    /\ callee = None
    /\ callee' = "rdp"
    /\ epsilon' = eps
    /\ stack' = <<Frame(points)>>
    /\ UNCHANGED <<points, simplified, clamped, lhs, rhs, forward, backward>>

\* From the entry of a call to its first recursive call or to its return
\* statement.
RdpScan ==
    /\ callee = "rdp"
    /\ stack # <<>>
    /\ Top.at = "entry"
    /\ LET pts  == Top.pts
           scan == rdp_scan(pts, 1, 0, Zero)
       IN  IF Len(pts) = 0
           THEN stack' = WithTop([Top EXCEPT !.at = "return", !.value = pts])
           ELSE IF exceeds(scan.dmax, epsilon)
                THEN /\ Len(stack) < StackLimit
                     /\ stack' = Append(WithTop([Top EXCEPT !.at = "prefix",
                                                            !.index = scan.index]),
                                        Frame(SubSeq(pts, 1, scan.index + 1)))
                ELSE stack' = WithTop([Top EXCEPT !.at = "return",
                                                  !.value = <<pts[1], pts[Len(pts)]>>])
    /\ UNCHANGED <<points, epsilon, callee, simplified, clamped, lhs, rhs, forward, backward>>

\* intermediate.pop() done, the second recursive call.
RdpRecurseSuffix ==
    /\ callee = "rdp"
    /\ stack # <<>>
    /\ Top.at = "popped"
    /\ Len(stack) < StackLimit
    /\ stack' = Append(WithTop([Top EXCEPT !.at = "suffix"]),
                       Frame(SubSeq(Top.pts, Top.index + 1, Len(Top.pts))))
    /\ UNCHANGED <<points, epsilon, callee, simplified, clamped, lhs, rhs, forward, backward>>

\* The innermost call returns its value to its caller.
RdpReturn ==
    /\ callee = "rdp"
    /\ stack # <<>>
    /\ Top.at = "return"
    /\ LET value  == Top.value
           rest   == SubSeq(stack, 1, Len(stack) - 1)
           parent == rest[Len(rest)]
       IN  IF rest = <<>>
           THEN /\ simplified' = value
                /\ stack' = <<>>
           ELSE /\ simplified' = simplified
                /\ stack' =
                      [rest EXCEPT ![Len(rest)] =
                          IF parent.at = "prefix"
                          THEN [parent EXCEPT !.at = "popped",
                                              !.value = SubSeq(value, 1, Len(value) - 1)]
                          ELSE [parent EXCEPT !.at = "return",
                                              !.value = parent.value \o value]]
    /\ UNCHANGED <<points, epsilon, callee, clamped, lhs, rhs, forward, backward>>

\* A recursive call with the stack full: the process is aborted.
RdpStackOverflow ==
    /\ callee = "rdp"
    /\ stack # <<>>
    /\ Len(stack) = StackLimit
    /\ \/ Top.at = "popped"
       \/ /\ Top.at = "entry"
          /\ Len(Top.pts) # 0
          /\ exceeds(rdp_scan(Top.pts, 1, 0, Zero).dmax, epsilon)
    /\ callee' = "stack overflow"
    /\ UNCHANGED <<points, epsilon, simplified, clamped, lhs, rhs, forward, backward, stack>>

NextRdpSteps ==
    \/ \E eps \in SignedEpsilons : RdpCall(eps)
    \/ RdpScan
    \/ RdpRecurseSuffix
    \/ RdpReturn
    \/ RdpStackOverflow

SpecRdpSteps == InitRdpSteps /\ [][NextRdpSteps]_vars

\* The outermost call has returned.
Returned == callee = "rdp" /\ stack = <<>>

\* C14: for every point sequence and every tolerance, of either sign, rdp
\* never exhausts the stack.
C14_RdpTotal == callee # "stack overflow"

\* With a tolerance >= 0 the recursion stays within the stack, and the value
\* returned is rdp(points, epsilon).
RdpStepsReturn ==
    (callee # None /\ epsilon.num >= 0) =>
        /\ callee = "rdp"
        /\ Returned => simplified = rdp(points, epsilon)

-----------------------------------------------------------------------------
(* Simplification of the aggregates: a MultiLineString is a sequence of    *)
(* LineStrings, a MultiPolygon a sequence of Polygons.                     *)

\* MultiLineString::simplify: every member through LineString::simplify.
MultiLineString_simplify(mls, eps) ==
    [i \in 1..Len(mls) |-> LineString_simplify(mls[i], eps)]

\* Polygon::simplify with the interior rings collected in reverse order.
Polygon_simplify_interiors_reversed(poly, eps) ==
    Polygon(LineString_simplify(poly.exterior, eps),
            [i \in 1..Len(poly.interiors) |->
                LineString_simplify(poly.interiors[Len(poly.interiors) + 1 - i], eps)])

\* Polygon::simplify: the exterior and every interior ring through
\* LineString::simplify, recombined by Polygon::new.
Polygon_simplify(poly, eps) ==
    Polygon(LineString_simplify(poly.exterior, eps),
            [i \in 1..Len(poly.interiors) |->
                LineString_simplify(poly.interiors[i], eps)])

\* MultiPolygon::simplify: every member through Polygon::simplify.
MultiPolygon_simplify(mp, eps) ==
    [i \in 1..Len(mp) |-> Polygon_simplify(mp[i], eps)]

AggMaxLen == 3

AggPoints == {Point(0, 0), Point(1, 1)}

\* The sequences of at most two members of S.
UpToTwo(S) == {<<>>} \cup {<<a>> : a \in S} \cup {<<a, b>> : a, b \in S}

\* Rings and LineStrings of up to AggMaxLen points.
AggRings == SeqsUpTo(AggPoints, AggMaxLen)

\* Rings of exactly AggMaxLen points.
AggFullRings == [1..AggMaxLen -> AggPoints]

AggPolygons == {Polygon(e, is) : e \in AggRings, is \in UpToTwo(AggRings)}

AggMultiLineStrings == UpToTwo(AggRings)

AggMultiPolygons ==
    UpToTwo({Polygon(e, is) : e \in AggFullRings,
                              is \in {<<>>} \cup {<<i>> : i \in AggFullRings}})

\* points holds the aggregate, tagged with its type.
InitAggregates ==
    /\ points \in Tagged("Polygon", AggPolygons)
                    \cup Tagged("MultiLineString", AggMultiLineStrings)
                    \cup Tagged("MultiPolygon", AggMultiPolygons)
    /\ clamped \in BOOLEAN
    /\ epsilon = None
    /\ callee = None
    /\ simplified = None
    /\ stack = <<>>
    /\ NoIntersects

CallPolygonSimplify(eps) ==
    /\ callee = None
    /\ points.kind = "Polygon"
    /\ callee' = "Polygon::simplify"
    /\ epsilon' = eps
    /\ simplified' = Polygon_simplify(points.v, eps)
    /\ UNCHANGED <<points, clamped, lhs, rhs, forward, backward, stack>>

CallMultiLineStringSimplify(eps) ==
    /\ callee = None
    /\ points.kind = "MultiLineString"
    /\ callee' = "MultiLineString::simplify"
    /\ epsilon' = eps
    /\ simplified' = MultiLineString_simplify(points.v, eps)
    /\ UNCHANGED <<points, clamped, lhs, rhs, forward, backward, stack>>

CallMultiPolygonSimplify(eps) ==
    /\ callee = None
    /\ points.kind = "MultiPolygon"
    /\ callee' = "MultiPolygon::simplify"
    /\ epsilon' = eps
    /\ simplified' = MultiPolygon_simplify(points.v, eps)
    /\ UNCHANGED <<points, clamped, lhs, rhs, forward, backward, stack>>

NextAggregates ==
    \/ \E eps \in Epsilons : CallPolygonSimplify(eps)
    \/ \E eps \in Epsilons : CallMultiLineStringSimplify(eps)
    \/ \E eps \in Epsilons : CallMultiPolygonSimplify(eps)

SpecAggregates == InitAggregates /\ [][NextAggregates]_vars

\* out is the polygon of the simplified rings of poly, each ring in its role
\* and the interior rings in their order.
RingsSimplified(poly, out) ==
    /\ out.exterior = rdp(poly.exterior, epsilon)
    /\ Len(out.interiors) = Len(poly.interiors)
    /\ \A i \in 1..Len(poly.interiors) :
          out.interiors[i] = rdp(poly.interiors[i], epsilon)

\* C15: Polygon::simplify returns the polygon of the simplified exterior and
\* of the simplified interior rings, in the same number and order;
\* MultiLineString::simplify and MultiPolygon::simplify return as many
\* members as they were given, the i-th being the simplification of the i-th.
C15_AggregatesSimplifyElementwise ==
    /\ callee = "Polygon::simplify" => RingsSimplified(points.v, simplified)
    /\ callee = "MultiLineString::simplify" =>
          /\ Len(simplified) = Len(points.v)
          /\ \A i \in 1..Len(points.v) : simplified[i] = rdp(points.v[i], epsilon)
    /\ callee = "MultiPolygon::simplify" =>
          /\ Len(simplified) = Len(points.v)
          /\ \A i \in 1..Len(points.v) : RingsSimplified(points.v[i], simplified[i])

\* A polygon with two interior rings that simplify to different rings, each
\* of its three rings losing a point.
C15_Witness ==
    /\ callee = "Polygon::simplify"
    /\ Len(points.v.interiors) = 2
    /\ simplified.interiors[1] # simplified.interiors[2]
    /\ Len(simplified.exterior) < Len(points.v.exterior)
    /\ Len(simplified.interiors[1]) < Len(points.v.interiors[1])
    /\ Len(simplified.interiors[2]) < Len(points.v.interiors[2])

-----------------------------------------------------------------------------
(* rdp against the reference recursion, on a grid wide enough for two      *)
(* different interior points at the same maximal distance.                 *)

TieMaxX == 2

TieGrid == {Point(x, y) : x \in 0..TieMaxX, y \in 0..1}

InitRdpTies ==
    /\ points \in SeqsUpTo(TieGrid, RdpMaxLen)
    /\ clamped \in BOOLEAN
    /\ epsilon = None
    /\ callee = None
    /\ simplified = None
    /\ stack = <<>>
    /\ NoIntersects

SpecRdpTies == InitRdpTies /\ [][NextRdp]_vars

\* The squared distance of the i-th point of pts to the line through the
\* first and the last point of pts.
DistanceToChord(pts, i) == euclidean_distance(pts[i], Line(pts[1], pts[Len(pts)]))

\* The interior positions of pts at maximal distance to the chord.
Farthest(pts) ==
    {i \in 2..(Len(pts) - 1) :
        \A j \in 2..(Len(pts) - 1) :
            RatGe(DistanceToChord(pts, i), DistanceToChord(pts, j))}

\* The smallest of them.
SplitAt(pts) == CHOOSE i \in Farthest(pts) : \A j \in Farthest(pts) : i <= j

\* distance > eps for a squared distance and a tolerance eps >= 0.
StrictlyFarther(distanceSq, eps) ==
    distanceSq.num * Sq(eps.den) > Sq(eps.num) * distanceSq.den

\* The reference recursion on a sequence of at least two points.
RECURSIVE RefRdp(_, _)
RefRdp(pts, eps) ==
    IF Len(pts) > 2 /\ StrictlyFarther(DistanceToChord(pts, SplitAt(pts)), eps)
    THEN RefRdp(SubSeq(pts, 1, SplitAt(pts)), eps)
             \o Tail(RefRdp(SubSeq(pts, SplitAt(pts), Len(pts)), eps))
    ELSE <<pts[1], pts[Len(pts)]>>

\* C16: for at least two points and a tolerance >= 0 the result is the one of
\* the reference recursion: split at the first interior point of maximal
\* distance when that distance is strictly greater than the tolerance, the
\* junction point once; else the first and the last point only.
C16_ReferenceRecursion ==
    (Called /\ Len(points) >= 2) => simplified = RefRdp(points, epsilon)

\* Two different interior points tie at the maximal distance, beyond the
\* tolerance, and the split at the first of them drops the second.
C16_Witness ==
    /\ Called
    /\ Len(points) = 4
    /\ points[2] # points[3]
    /\ Farthest(points) = {2, 3}
    /\ StrictlyFarther(DistanceToChord(points, 2), epsilon)
    /\ simplified = <<points[1], points[2], points[4]>>

-----------------------------------------------------------------------------
(* T = f32: the arithmetic of the kernel's scalars, rounded to nearest,    *)
(* ties to even.  A value is sign * m * 2^e with a 24-bit mantissa m, or   *)
(* zero (m = 0); exponents are unbounded here, the operands used stay far  *)
(* from f32's overflow and underflow.                                      *)

\* The leading mantissa bit, 2^23 = 1 / T::epsilon().
F32Hidden == EpsilonDen

f32_zero == [sign |-> 1, m |-> 0, e |-> 0]

f32_one == [sign |-> 1, m |-> F32Hidden, e |-> -23]

f32_epsilon == [sign |-> 1, m |-> F32Hidden, e |-> -46]

\* The number of binary digits of n > 0.
BitLen(n) == CHOOSE len \in 1..30 : n < 2^len /\ n >= 2^(len - 1)

\* The f32 nearest to sign * n * 2^e, for 0 <= n < 2^30.  When n stands for
\* a number with more digits, its lowest digit is 1 if any further digit is
\* (a sticky digit) and n has two digits or more beyond the mantissa.
f32_round(sign, n, e) ==
    IF n = 0 THEN f32_zero
    ELSE LET len == BitLen(n)
         IN  IF len <= 24
             THEN [sign |-> sign, m |-> n * 2^(24 - len), e |-> e - (24 - len)]
             ELSE LET s    == len - 24
                      q    == n \div 2^s
                      r    == n % 2^s
                      half == 2^(s - 1)
                      m    == IF r > half \/ (r = half /\ q % 2 = 1) THEN q + 1 ELSE q
                  IN  IF m = 2 * F32Hidden
                      THEN [sign |-> sign, m |-> F32Hidden, e |-> e + s + 1]
                      ELSE [sign |-> sign, m |-> m, e |-> e + s]

\* The f32 of an integer coordinate.
f32(n) == f32_round(IF n < 0 THEN -1 ELSE 1, Abs(n), 0)

f32_neg(a) == IF a.m = 0 THEN a ELSE [a EXCEPT !.sign = -a.sign]

f32_abs(a) == [a EXCEPT !.sign = 1]

\* |a| >= |b| for a and b not zero.
MagGe(a, b) == a.e > b.e \/ (a.e = b.e /\ a.m >= b.m)

\* a + b: the smaller operand is shifted under the larger one, with three
\* guard digits of which the last is sticky.
f32_add(a, b) ==
    IF a.m = 0 THEN b
    ELSE IF b.m = 0 THEN a
    ELSE LET x  == IF MagGe(a, b) THEN a ELSE b
             y  == IF MagGe(a, b) THEN b ELSE a
             d  == x.e - y.e
             sh == IF d > 27 THEN 0 ELSE (y.m * 8) \div 2^d
             st == IF d > 27 THEN TRUE ELSE (y.m * 8) % 2^d # 0
             Y  == IF st /\ sh % 2 = 0 THEN sh + 1 ELSE sh
             R  == IF x.sign = y.sign THEN x.m * 8 + Y ELSE x.m * 8 - Y
         IN  f32_round(x.sign, R, x.e - 3)

f32_sub(a, b) == f32_add(a, f32_neg(b))

\* a * b: the 48-digit product of the mantissas from their 12-digit halves,
\* cut to hi * 8 + three digits, the last one sticky.
f32_mul(a, b) ==
    IF a.m = 0 \/ b.m = 0 THEN f32_zero
    ELSE LET h1  == a.m \div 4096
             l1  == a.m % 4096
             h2  == b.m \div 4096
             l2  == b.m % 4096
             mid == h1 * l2 + l1 * h2
             t   == l1 * l2 + (mid % 4096) * 4096
             lo  == t % (2 * F32Hidden)
             hi  == h1 * h2 + mid \div 4096 + t \div (2 * F32Hidden)
             top == hi * 8 + lo \div 2^21
             R   == IF lo % 2^21 # 0 /\ top % 2 = 0 THEN top + 1 ELSE top
         IN  f32_round(a.sign * b.sign, R, a.e + b.e + 21)

\* n more digits of the quotient rem / den, long division.
RECURSIVE div_digits(_, _, _, _)
div_digits(rem, den, quot, n) ==
    IF n = 0 THEN [quot |-> quot, rem |-> rem]
    ELSE IF 2 * rem >= den
         THEN div_digits(2 * rem - den, den, 2 * quot + 1, n - 1)
         ELSE div_digits(2 * rem, den, 2 * quot, n - 1)

\* a / b for b not zero: 26 digits of the quotient of the mantissas after
\* the point, and a sticky digit for the remainder.
f32_div(a, b) ==
    IF a.m = 0 THEN f32_zero
    ELSE LET res == div_digits(a.m % b.m, b.m, a.m \div b.m, 26)
             R   == 2 * res.quot + (IF res.rem # 0 THEN 1 ELSE 0)
         IN  f32_round(a.sign * b.sign, R, a.e - b.e - 27)

f32_lt(a, b) ==
    IF a.m = 0 THEN b.m # 0 /\ b.sign = 1
    ELSE IF b.m = 0 THEN a.sign = -1
    ELSE IF a.sign # b.sign THEN a.sign = -1
    ELSE IF a.sign = 1 THEN ~MagGe(a, b) ELSE ~MagGe(b, a)

f32_le(a, b) == a = b \/ f32_lt(a, b)

\* T::zero() <= t && t <= T::one()
f32_in_unit(t) == f32_le(f32_zero, t) /\ f32_le(t, f32_one)

-----------------------------------------------------------------------------
(* Line x Point and Line x Line at T = f32 *)

\* Line::dx() and Line::dy()
f32_dx(line) == f32_sub(f32(line.end.x), f32(line.start.x))

f32_dy(line) == f32_sub(f32(line.end.y), f32(line.start.y))

Line_intersects_Point_f32(self, p) ==
    LET tx == f32_div(f32_sub(f32(p.x), f32(self.start.x)), f32_dx(self))
        ty == f32_div(f32_sub(f32(p.y), f32(self.start.y)), f32_dy(self))
    IN  IF f32_dx(self) = f32_zero /\ f32_dy(self) = f32_zero
        THEN f32(p.x) = f32(self.start.x) /\ f32(p.y) = f32(self.start.y)
        ELSE IF f32_dy(self) = f32_zero
        THEN f32(p.y) = f32(self.start.y) /\ f32_in_unit(tx)
        ELSE IF f32_dx(self) = f32_zero
        THEN f32(p.x) = f32(self.start.x) /\ f32_in_unit(ty)
        ELSE /\ f32_le(f32_abs(f32_sub(tx, ty)), f32_epsilon)
             /\ f32_in_unit(tx)

Point_intersects_Line_f32(self, line) == Line_intersects_Point_f32(line, self)

\* Some endpoint of a or b satisfies Point x Line against the other segment.
EndpointOnOther(a, b) ==
    \/ Point_intersects_Line_f32(a.start, b)
    \/ Point_intersects_Line_f32(a.end, b)
    \/ Point_intersects_Line_f32(b.start, a)
    \/ Point_intersects_Line_f32(b.end, a)

\* The determinant d of Line x Line.
determinant_f32(self, line) ==
    f32_sub(f32_mul(f32_dx(self), f32_neg(f32_dy(line))),
            f32_mul(f32_dy(self), f32_neg(f32_dx(line))))

\* Line x Line whose parallel fallback looks for a common endpoint only.
Line_intersects_Line_f32_common_endpoint(self, line) ==
    LET a1 == f32_dx(self)
        a2 == f32_dy(self)
        b1 == f32_neg(f32_dx(line))
        b2 == f32_neg(f32_dy(line))
        c1 == f32_sub(f32(line.start.x), f32(self.start.x))
        c2 == f32_sub(f32(line.start.y), f32(self.start.y))
        d  == f32_sub(f32_mul(a1, b2), f32_mul(a2, b1))
    IN  IF d = f32_zero
        THEN {self.start, self.end} \cap {line.start, line.end} # {}
        ELSE LET s == f32_div(f32_sub(f32_mul(c1, b2), f32_mul(c2, b1)), d)
                 t == f32_div(f32_sub(f32_mul(a1, c2), f32_mul(a2, c1)), d)
             IN  f32_in_unit(s) /\ f32_in_unit(t)

Line_intersects_Line_f32(self, line) ==
    LET a1 == f32_dx(self)
        a2 == f32_dy(self)
        b1 == f32_neg(f32_dx(line))
        b2 == f32_neg(f32_dy(line))
        c1 == f32_sub(f32(line.start.x), f32(self.start.x))
        c2 == f32_sub(f32(line.start.y), f32(self.start.y))
        d  == f32_sub(f32_mul(a1, b2), f32_mul(a2, b1))
    IN  IF d = f32_zero
        THEN \/ Point_intersects_Line_f32(self.start, line)
             \/ Point_intersects_Line_f32(self.end, line)
             \/ Point_intersects_Line_f32(line.start, self)
             \/ Point_intersects_Line_f32(line.end, self)
        ELSE LET s == f32_div(f32_sub(f32_mul(c1, b2), f32_mul(c2, b1)), d)
                 t == f32_div(f32_sub(f32_mul(a1, c2), f32_mul(a2, c1)), d)
             IN  f32_in_unit(s) /\ f32_in_unit(t)

-----------------------------------------------------------------------------
(* Line x Line alone, at T = f32: segments of the small grid, and segments *)
(* of one line through the origin whose far points have coordinates beyond *)
(* 2^24, where a difference of two coordinates is rounded.                 *)

LlMax == 1

FarDir == Point(5, 7)

FarMultiples == {-7, 0, 1, 3693356, 3693360, 3835546}

\* The points k * FarDir: all on one line, all with f32 coordinates.
FarPoints == {Point(k * FarDir.x, k * FarDir.y) : k \in FarMultiples}

FarLines == {Line(s, e) : s, e \in FarPoints}

LineOperands == GridLines(LlMax) \cup FarLines

InitLineLine ==
    /\ lhs \in Tagged("Line", LineOperands)
    /\ rhs \in Tagged("Line", LineOperands)
    /\ forward = <<>>
    /\ backward = <<>>
    /\ NoRdp

LineIntersectsLineF32 ==
    \E d \in Directions :
        /\ Call(d, "Line", "Line")
        /\ Answer(d, Line_intersects_Line_f32(Self(d).v, Arg(d).v))

NextLineLine == LineIntersectsLineF32

SpecLineLine == InitLineLine /\ [][NextLineLine]_vars

Min(m, n) == IF m <= n THEN m ELSE n

Max(m, n) == IF m >= n THEN m ELSE n

\* Two segments of one line share a point: their projections overlap on both
\* axes.
CollinearShare(a, b) ==
    /\ Max(Min(a.start.x, a.end.x), Min(b.start.x, b.end.x))
          <= Min(Max(a.start.x, a.end.x), Max(b.start.x, b.end.x))
    /\ Max(Min(a.start.y, a.end.y), Min(b.start.y, b.end.y))
          <= Min(Max(a.start.y, a.end.y), Max(b.start.y, b.end.y))

\* Both segments lie on the line through the origin and FarDir.
OnFarLine(a, b) ==
    \A p \in {a.start, a.end, b.start, b.end} : p.x * FarDir.y = p.y * FarDir.x

\* C17: when the determinant is exactly zero, Line x Line is the disjunction
\* of the four Point x Line tests of an endpoint against the other segment
\* and nothing else, so that two collinear segments that share a point but of
\* which no endpoint passes that test are answered false.
C17_CollinearOverlapMissed ==
    (BothAnswered /\ determinant_f32(lhs.v, rhs.v) = f32_zero) =>
        /\ forward = <<EndpointOnOther(lhs.v, rhs.v)>>
        /\ backward = <<EndpointOnOther(lhs.v, rhs.v)>>

\* Two segments of one line that share a point, with a determinant of zero
\* and no endpoint passing Point x Line against the other segment, answered
\* false in both directions.
C17_Witness ==
    /\ BothAnswered
    /\ OnFarLine(lhs.v, rhs.v)
    /\ lhs.v.start # lhs.v.end
    /\ rhs.v.start # rhs.v.end
    /\ CollinearShare(lhs.v, rhs.v)
    /\ determinant_f32(lhs.v, rhs.v) = f32_zero
    /\ ~EndpointOnOther(lhs.v, rhs.v)
    /\ forward = <<FALSE>>
    /\ backward = <<FALSE>>

\* On the small grid the arithmetic is exact up to the rounding of a
\* quotient, and the f32 answers are those of the exact predicates: there,
\* segments that share a point are never missed.
GridAnswersExact ==
    (BothAnswered /\ lhs.v \in GridLines(LlMax) /\ rhs.v \in GridLines(LlMax)) =>
        /\ forward = <<Line_intersects_Line(lhs.v, rhs.v)>>
        /\ forward = <<SegmentsMeet(lhs.v, rhs.v)>>
        /\ backward = forward

-----------------------------------------------------------------------------
(* rdp applied to its own result *)

\* C18: for every point sequence and every tolerance >= 0, simplifying the
\* result once more with the same tolerance changes nothing.
C18_Idempotent == Called => rdp(simplified, epsilon) = simplified

\* A result of three points or more that lost a point of the input, under a
\* tolerance above zero, is simplified to itself.
C18_Witness ==
    /\ Called
    /\ epsilon.num > 0
    /\ Len(simplified) >= 3
    /\ Len(simplified) < Len(points)
    /\ rdp(simplified, epsilon) = simplified

-----------------------------------------------------------------------------
(* A Line against a LineString, and the same segment as a LineString of    *)
(* two points                                                              *)

InitLineLineString ==
    /\ lhs \in Tagged("Line", GridLines(IntMax))
    /\ rhs \in Tagged("LineString", LineStrings)
    /\ forward = <<>>
    /\ backward = <<>>
    /\ NoRdp

NextLineLineString ==
    \/ LineIntersectsLineString
    \/ LineStringIntersectsLine

SpecLineLineString == InitLineLineString /\ [][NextLineLineString]_vars

\* The LineString [a0, a1] of the segment a0-a1.
AsLineString(line) == LineString(<<line.start, line.end>>)

\* The directions of a and b are parallel, or one of the two is degenerate.
Parallel(a, b) == dx(a) * dy(b) - dy(a) * dx(b) = 0

\* The four endpoints of a and b lie on one line.
Collinear4(a, b) ==
    /\ cross_prod(a.start, a.end, b.start) = 0
    /\ cross_prod(a.start, a.end, b.end) = 0
    /\ cross_prod(b.start, b.end, a.start) = 0
    /\ cross_prod(b.start, b.end, a.end) = 0

\* Some segment of ls is parallel to the segment and shares a point with it.
MeetsParallelSegment(line, ls) ==
    \E j \in DOMAIN lines(ls) :
        Parallel(line, lines(ls)[j]) /\ SegmentsMeet(line, lines(ls)[j])

\* C19: Line(a0, a1) x LineString B and LineString [a0, a1] x LineString B
\* give the same answer for every B.
C19_SegmentPredicatesAgree ==
    BothAnswered =>
        forward = <<LineString_intersects_LineString(AsLineString(lhs.v), rhs.v)>>

\* C19, amended: LineString [a0, a1] x LineString B true implies
\* Line(a0, a1) x B true, and the two differ exactly when no segment pair
\* passes the LineString x LineString test but a segment of B parallel to
\* a0-a1 (or degenerate, or a0 = a1) shares a point with it.
C19_AgreeUpToParallel ==
    BothAnswered =>
        /\ backward = forward
        /\ forward = << \/ LineString_intersects_LineString(AsLineString(lhs.v), rhs.v)
                        \/ MeetsParallelSegment(lhs.v, rhs.v) >>

\* A segment of B on the line of a0-a1 ends strictly between a0 and a1, no
\* segment of B crosses a0-a1: true as a Line, false as a LineString.
C19_Witness ==
    /\ BothAnswered
    /\ lhs.v.start # lhs.v.end
    /\ forward = <<TRUE>>
    /\ backward = <<TRUE>>
    /\ ~LineString_intersects_LineString(AsLineString(lhs.v), rhs.v)
    /\ \E j \in DOMAIN lines(rhs.v) :
          /\ lines(rhs.v)[j].start # lines(rhs.v)[j].end
          /\ Collinear4(lhs.v, lines(rhs.v)[j])
          /\ \E p \in {lines(rhs.v)[j].start, lines(rhs.v)[j].end} :
                /\ OnClosedSegment(p, lhs.v)
                /\ p \notin {lhs.v.start, lhs.v.end}

====
